---------------------------- MODULE Spec2Model ----------------------------
(***************************************************************************)
(* Model of the camera-guidance engine of the skin analysis app            *)
(* (angleTracking.js, kept as src/unnamed/part_000) and of the polling     *)
(* handler of src/script.js that drives it.                                *)
(*                                                                         *)
(* Specifications.                                                         *)
(*   Spec         the engine polled by updateGuidanceUI on camera frames   *)
(*   SpecMetrics  one getDetailedGuidance call on one image element        *)
(*   SpecLog      the #logging panel under logEvent and toggleLogs         *)
(*   SpecRisk     the risk assessment of captureImage on one score pair    *)
(*   SpecLoad     loadModel and loadModelWithFix, every await either way   *)
(*   SpecApp      the page: camera, polling timers, captures, ticks        *)
(*                                                                         *)
(* Numbers.  The program computes with IEEE doubles.  The model computes   *)
(* with exact rationals [n |-> numerator, d |-> denominator > 0], kept in  *)
(* lowest terms, and compares them exactly.  Times are integer             *)
(* milliseconds, as Date.now() returns them; the times in state of this    *)
(* model are multiples of the polling period, for which the doubles of     *)
(* progressPercent round to the same integer as the exact quotient.        *)
(***************************************************************************)
EXTENDS Integers, Sequences, FiniteSets, TLC

(***************************************************************************)
(* Exact rational arithmetic.                                              *)
(***************************************************************************)
RECURSIVE GCD(_, _)
GCD(a, b) == IF b = 0 THEN a ELSE GCD(b, a % b)

Abs(x) == IF x < 0 THEN -x ELSE x

Rat(n, d) ==
  LET g == GCD(Abs(n), d)
  IN  [n |-> n \div g, d |-> d \div g]

RLt(a, b) == a.n * b.d < b.n * a.d
RGt(a, b) == RLt(b, a)
RLe(a, b) == ~RLt(b, a)
RMul(a, b) == Rat(a.n * b.n, a.d * b.d)
RDiv(a, b) == Rat(a.n * b.d, a.d * b.n)
RSub(a, b) == Rat(a.n * b.d - b.n * a.d, a.d * b.d)
RMin(a, b) == IF RLt(b, a) THEN b ELSE a

\* Math.round: the nearest integer, halves upwards.
MathRound(q) == (2 * q.n + q.d) \div (2 * q.d)

\* Number.prototype.toFixed(2), as the number of hundredths it prints.
ToFixed2(q) == MathRound(RMul(q, Rat(100, 1)))

Zero == Rat(0, 1)
One == Rat(1, 1)

(***************************************************************************)
(* Constants of angleTracking.js and script.js.                            *)
(***************************************************************************)
STATE_DURATION == 3000

STATES ==
  {"center", "closer", "further", "left_side", "right_side",
   "more_light", "less_reflection", "hold_steady"}

PollInterval == 200

\* Sampling stride of the brightness loop, in bytes (10 RGBA pixels).
SampleStride == 40

\* A difference of red values above this is an edge.
EdgeDelta == 20

(***************************************************************************)
(* Bounds of the model.                                                    *)
(***************************************************************************)
\* The clock stops advancing here.
MaxNow == 10000

\* Date.now() may move by up to this much between two reads in one call.
MaxReadDelay == 1

(***************************************************************************)
(* Frames.  A frame is the raster analyzeImageQuality reads back from its  *)
(* canvas: width, height and the RGBA bytes, 4 * width * height of them,   *)
(* indexed from 0.                                                         *)
(***************************************************************************)
\* Number of sampled columns (or rows) of the edge loop: 1, 3, 5, ... < n - 1.
GridSize(n) == IF n < 3 THEN 0 ELSE (n - 1) \div 2

\* A test frame: grey `level`, every second block of ten pixels brighter by
\* `alt`, and the first k points of the edge grid (in scan order) with their
\* red value moved by 30, so that exactly k of them are edges.
PaintedFrame(w, h, level, alt, k) ==
  LET cols == GridSize(w)
      marked(x, y) ==
        /\ x % 2 = 1 /\ y % 2 = 1 /\ x < w - 1 /\ y < h - 1
        /\ ((y - 1) \div 2) * cols + ((x - 1) \div 2) < k
      grey(p) == level + (IF (p \div 10) % 2 = 1 THEN alt ELSE 0)
      byte(i) ==
        LET p == i \div 4
            c == i % 4
        IN  IF c = 3 THEN 255
            ELSE IF c = 0 /\ marked(p % w, p \div w)
                 THEN (IF grey(p) > 200 THEN grey(p) - 30 ELSE grey(p) + 30)
                 ELSE grey(p)
  IN  [width |-> w, height |-> h,
       data |-> [i \in 0 .. (4 * w * h - 1) |-> byte(i)]]

\* The frames the camera delivers in this model.
Frames ==
  { PaintedFrame(5, 4, 127, 1, 0),
    PaintedFrame(5, 4, 127, 1, 1),
    PaintedFrame(5, 4, 127, 1, 2),
    PaintedFrame(10, 5, 51, 0, 1),
    PaintedFrame(10, 5, 51, 0, 3),
    PaintedFrame(10, 5, 230, 0, 1),
    PaintedFrame(10, 5, 230, 0, 4),
    PaintedFrame(10, 5, 128, 0, 2),
    PaintedFrame(5, 5, 128, 0, 4),
    PaintedFrame(20, 15, 128, 0, 17) }

(***************************************************************************)
(* analyzeImageQuality: the metrics of a frame.  The focusScore field is   *)
(* also what the function stores in the global focusScore.                 *)
(***************************************************************************)
\* 299 r + 587 g + 114 b of the pixel at byte i (thousandths).
LumAt(data, i) == 299 * data[i] + 587 * data[i + 1] + 114 * data[i + 2]

RECURSIVE LumRange(_, _, _)
\* The sum of LumAt over the samples number lo .. hi, sample j at byte 40 j.
LumRange(data, lo, hi) ==
  IF lo > hi THEN 0
  ELSE IF lo = hi THEN LumAt(data, lo * SampleStride)
  ELSE LET mid == (lo + hi) \div 2
       IN  LumRange(data, lo, mid) + LumRange(data, mid + 1, hi)

\* The brightness loop: the sum over i = 0, 40, 80, ... < len.
LumSum(data, len) == LumRange(data, 0, (len - 1) \div SampleStride)

Brightness(img) ==
  LET len == 4 * img.width * img.height
  IN  RDiv(RDiv(Rat(LumSum(img.data, len), 1000), Rat(len, SampleStride)),
           Rat(255, 1))

\* The values of a loop variable: v = 1; v < n; v += 2.
OddBelow(n) == { 2 * i + 1 : i \in 0 .. ((n - 2) \div 2) }

EdgeCount(img) ==
  LET w == img.width
      isEdge(x, y) ==
        LET idx == (y * w + x) * 4
            c1 == img.data[idx]
            c2 == img.data[idx + 4]
            c3 == img.data[idx + w * 4]
        IN  Abs(c1 - c2) > EdgeDelta \/ Abs(c1 - c3) > EdgeDelta
  IN  Cardinality({ p \in OddBelow(img.width - 1) \X OddBelow(img.height - 1) :
                      isEdge(p[1], p[2]) })

analyzeImageQuality_NoBoost(img) ==
  LET area == img.width * img.height
      edgeCount == EdgeCount(img)
      sharpness == RMin(One, RDiv(Rat(edgeCount, 1), Rat(area, 10)))
      hasFocusedSubject == RGt(sharpness, Rat(4, 10))
      distanceEstimate == RSub(One, RDiv(Rat(edgeCount, 1), Rat(area, 5)))
  IN  [brightness |-> Brightness(img),
       sharpness |-> sharpness,
       hasFocusedSubject |-> hasFocusedSubject,
       distanceEstimate |-> distanceEstimate,
       focusScore |-> RMul(sharpness, Rat(5, 10))]

analyzeImageQuality(img) ==
  LET area == img.width * img.height
      edgeCount == EdgeCount(img)
      sharpness == RMin(One, RDiv(Rat(edgeCount, 1), Rat(area, 10)))
      hasFocusedSubject == RGt(sharpness, Rat(4, 10))
      distanceEstimate == RSub(One, RDiv(Rat(edgeCount, 1), Rat(area, 5)))
  IN  [brightness |-> Brightness(img),
       sharpness |-> sharpness,
       hasFocusedSubject |-> hasFocusedSubject,
       distanceEstimate |-> distanceEstimate,
       focusScore |-> RMul(sharpness,
                           IF hasFocusedSubject THEN Rat(15, 10) ELSE Rat(5, 10))]

\* The metrics of every frame of the model, computed once.
MetricsOf == [f \in Frames |-> analyzeImageQuality(f)]


(***************************************************************************)
(* State.                                                                  *)
(*   now                   the wall clock at the last Date.now() read      *)
(*   currentGuidanceState, stateStartTime, lastBrightnessValue,            *)
(*   lastDistanceEstimate, focusScore                                      *)
(*                         the module-level variables of angleTracking.js  *)
(*   captureReady          the global of script.js                         *)
(*   ui                    what updateGuidanceUI last wrote to the page    *)
(*   guidance              the record the last getGuidance call returned   *)
(*   call                  history: the locals of the last getGuidance     *)
(*                         call (its metrics and timeInState), the state   *)
(*                         it started from, and whether every call of the  *)
(*                         dwell period it belongs to had focusScore > 0.7 *)
(*   goodSince             history: every getGuidance call since           *)
(*                         stateStartTime was last set had focusScore > 0.7*)
(*   probe                 the input, and then the outcome, of the one     *)
(*                         operation a pure-function specification applies *)
(*   page                  the camera, the polling timers and the capture  *)
(*                         in flight of script.js                          *)
(*   logPanel              the #logging element of index.html              *)
(*   writer                history: the event whose handler last changed   *)
(*                         currentGuidanceState, stateStartTime or         *)
(*                         focusScore                                      *)
(*   load                  the position and the locals of loadModel        *)
(***************************************************************************)
VARIABLES now, currentGuidanceState, stateStartTime, lastBrightnessValue,
          lastDistanceEstimate, focusScore, captureReady, ui, guidance, call,
          goodSince, probe, page, logPanel, writer, load

vars == <<now, currentGuidanceState, stateStartTime, lastBrightnessValue,
          lastDistanceEstimate, focusScore, captureReady, ui, guidance, call,
          goodSince, probe, page, logPanel, writer, load>>

engine == <<currentGuidanceState, stateStartTime, lastBrightnessValue,
            lastDistanceEstimate, focusScore>>

Null == "null"
NoGuidance == [state |-> "none"]
NoCall == [made |-> FALSE]

\* focusScore > 0.7 and focusScore > 0.8, the two readiness thresholds.
HoldThreshold == Rat(7, 10)
ReadyThreshold == Rat(8, 10)

\* getNextState with the brightness rules tried before the focus rule.
getNextState_BrightnessFirst(metrics, t, fs, start, rnd) ==
  LET timeInState == t - start
  IN  IF RLt(metrics.brightness, Rat(4, 10)) THEN "more_light"
      ELSE IF RGt(metrics.brightness, Rat(85, 100)) THEN "less_reflection"
      ELSE IF timeInState > STATE_DURATION /\ RGt(fs, HoldThreshold) THEN "hold_steady"
      ELSE IF RLt(metrics.distanceEstimate, Rat(3, 10)) THEN "further"
      ELSE IF RGt(metrics.distanceEstimate, Rat(7, 10)) THEN "closer"
      ELSE IF ~metrics.hasFocusedSubject
           THEN (IF rnd THEN "left_side" ELSE "right_side")
      ELSE "center"

\* getNextState with the distance rules tried before the brightness rules.
getNextState_DistanceFirst(metrics, t, fs, start, rnd) ==
  LET timeInState == t - start
  IN  IF timeInState > STATE_DURATION /\ RGt(fs, HoldThreshold) THEN "hold_steady"
      ELSE IF RLt(metrics.distanceEstimate, Rat(3, 10)) THEN "further"
      ELSE IF RGt(metrics.distanceEstimate, Rat(7, 10)) THEN "closer"
      ELSE IF RLt(metrics.brightness, Rat(4, 10)) THEN "more_light"
      ELSE IF RGt(metrics.brightness, Rat(85, 100)) THEN "less_reflection"
      ELSE IF ~metrics.hasFocusedSubject
           THEN (IF rnd THEN "left_side" ELSE "right_side")
      ELSE "center"

(***************************************************************************)
(* getNextState(metrics): `t` is what its own Date.now() returns, `fs` the *)
(* global focusScore, `start` the global stateStartTime, `rnd` whether     *)
(* Math.random() > 0.5.                                                    *)
(***************************************************************************)
getNextState(metrics, t, fs, start, rnd) ==
  LET timeInState == t - start
  IN  IF timeInState > STATE_DURATION /\ RGt(fs, HoldThreshold) THEN "hold_steady"
      ELSE IF RLt(metrics.brightness, Rat(4, 10)) THEN "more_light"
      ELSE IF RGt(metrics.brightness, Rat(85, 100)) THEN "less_reflection"
      ELSE IF RLt(metrics.distanceEstimate, Rat(3, 10)) THEN "further"
      ELSE IF RGt(metrics.distanceEstimate, Rat(7, 10)) THEN "closer"
      ELSE IF ~metrics.hasFocusedSubject
           THEN (IF rnd THEN "left_side" ELSE "right_side")
      ELSE "center"

\* The dwell test with >= for >.
DwellExpired_Inclusive(timeInState) == timeInState >= STATE_DURATION

\* The dwell test of getGuidance.
DwellExpired(timeInState) == timeInState > STATE_DURATION

\* The transition with hold_steady never left.
StateAfter_Sticky(current, timeInState, next) ==
  IF timeInState > STATE_DURATION /\ current # "hold_steady" THEN next ELSE current

\* The transition of getGuidance: `next` is what getNextState returns.
StateAfter(current, timeInState, next) ==
  IF DwellExpired(timeInState) THEN next ELSE current

\* The state -> text table of getGuidance.
MessageOf(state) ==
  CASE state = "center" -> "Center the skin area in the frame"
    [] state = "closer" -> "Move camera closer to the skin"
    [] state = "further" -> "Move camera farther from the skin"
    [] state = "left_side" -> "Move slightly to the left"
    [] state = "right_side" -> "Move slightly to the right"
    [] state = "more_light" -> "Find better lighting"
    [] state = "less_reflection" -> "Reduce glare or reflection"
    [] state = "hold_steady" -> "Hold steady for capture"
    [] OTHER -> ""

\* progressPercent without the cap at 100.
ProgressPercent_Uncapped(state, timeInState, fs) ==
  MathRound(IF state = "hold_steady"
            THEN RMul(fs, Rat(100, 1))
            ELSE RMul(Rat(timeInState, STATE_DURATION), Rat(100, 1)))

\* progressPercent of the returned record: timeInState is the local computed
\* at the top of getGuidance, before any reset of stateStartTime.
ProgressPercent(state, timeInState, fs) ==
  LET byTime == RMin(Rat(100, 1),
                     RMul(Rat(timeInState, STATE_DURATION), Rat(100, 1)))
      byFocus == RMin(Rat(100, 1), RMul(fs, Rat(100, 1)))
  IN  MathRound(IF state = "hold_steady" THEN byFocus ELSE byTime)

\* readyForCapture with the threshold of the hold_steady rule, 0.7.
ReadyForCapture_HoldThreshold(state, fs) ==
  state = "hold_steady" /\ RGt(fs, HoldThreshold)

\* readyForCapture with a threshold of 0.9.
ReadyForCapture_Strict(state, fs) ==
  state = "hold_steady" /\ RGt(fs, Rat(9, 10))

ReadyForCapture(state, fs) ==
  state = "hold_steady" /\ RGt(fs, ReadyThreshold)

(***************************************************************************)
(* getGuidance(imageElement), after analyzeImageQuality has returned       *)
(* `metrics`.  Date.now() is read at the dwell test (t1),                  *)
(* inside getNextState (t1 + d2) and at the reset (t1 + d2 + d3); the last *)
(* two reads happen only when the dwell has expired.                       *)
(***************************************************************************)
getGuidanceWith(t1, metrics, d2, d3, rnd) ==
  LET fs == metrics.focusScore
      timeInState == t1 - stateStartTime
      expired == DwellExpired(timeInState)
      t2 == t1 + d2
      t3 == t2 + d3
      state == StateAfter(currentGuidanceState, timeInState,
                          getNextState(metrics, t2, fs, stateStartTime, rnd))
  IN  /\ t3 <= MaxNow
      /\ ~expired => (d2 = 0 /\ d3 = 0 /\ rnd)
      /\ focusScore' = fs
      /\ currentGuidanceState' = state
      /\ stateStartTime' = (IF expired THEN t3 ELSE stateStartTime)
      /\ now' = (IF expired THEN t3 ELSE t1)
      /\ lastBrightnessValue' = metrics.brightness
      /\ lastDistanceEstimate' = metrics.distanceEstimate
      /\ guidance' = [message |-> MessageOf(state),
                      state |-> state,
                      focusScore |-> ToFixed2(fs),
                      progressPercent |-> ProgressPercent(state, timeInState, fs),
                      readyForCapture |-> ReadyForCapture(state, fs)]
      /\ call' = [made |-> TRUE,
                  metrics |-> metrics,
                  timeInState |-> timeInState,
                  stateBefore |-> currentGuidanceState,
                  startBefore |-> stateStartTime,
                  sustained |-> goodSince /\ RGt(fs, HoldThreshold)]
      /\ goodSince' = (IF expired THEN TRUE ELSE goodSince /\ RGt(fs, HoldThreshold))

\* getGuidance on a frame of the model, whose metrics are those of MetricsOf.
getGuidance(t1, img, d2, d3, rnd) ==
  getGuidanceWith(t1, MetricsOf[img], d2, d3, rnd)

(***************************************************************************)
(* updateGuidanceUI, the handler of the 200 ms interval, with the video    *)
(* element holding a frame (readyState 4).  The handler runs `late` after  *)
(* the previous clock read: at once, one polling period later, or two.     *)
(***************************************************************************)
TickDelays == {0, PollInterval, 2 * PollInterval}

FocusClass(fs100) ==
  IF fs100 > 70 THEN "focus-indicator good"
  ELSE IF fs100 > 40 THEN "focus-indicator"
  ELSE "focus-indicator bad"

\* The history variable `writer` after the handler of `event`.
WriterAfter(event) ==
  IF <<currentGuidanceState', stateStartTime', focusScore'>>
       # <<currentGuidanceState, stateStartTime, focusScore>>
  THEN event ELSE writer

\* The body of updateGuidanceUI when video.readyState is 4, with the tick
\* delays, the frames and the clock-read delays it is given.
updateGuidanceUIOn(lates, frames, reads) ==
  \E late \in lates, img \in frames, d2, d3 \in reads, rnd \in BOOLEAN :
    /\ getGuidance(now + late, img, d2, d3, rnd)
    /\ captureReady' = guidance'.readyForCapture
    /\ ui' = [ui EXCEPT
                !.message = guidance'.message,
                !.progressWidth = guidance'.progressPercent,
                !.focusClass = FocusClass(guidance'.focusScore),
                !.pulse = guidance'.readyForCapture,
                !.captureText = IF guidance'.readyForCapture
                                THEN "Capture Now" ELSE "Capture Image"]
    /\ writer' = WriterAfter("tick")

updateGuidanceUI ==
  /\ updateGuidanceUIOn(TickDelays, Frames, 0 .. MaxReadDelay)
  /\ UNCHANGED <<probe, page, logPanel, load>>

NoProbe == [stage |-> "none"]

(***************************************************************************)
(* The #logging panel: its child nodes, oldest first (a whitespace text    *)
(* node or a <p> with the number of the logEvent call that made it, 0 for  *)
(* the <p> of index.html), the number of logEvent calls, and what          *)
(* toggleLogs sets.                                                        *)
(***************************************************************************)
LogLimit == 20

TextNode == [kind |-> "text", n |-> 0]

InitialPanel ==
  [nodes |-> <<TextNode, [kind |-> "p", n |-> 0], TextNode>>,
   logged |-> 0, display |-> "", icon |-> "+"]

\* logDiv.children: the element children of the panel.
Children(nodes) == SelectSeq(nodes, LAMBDA c : c.kind = "p")

\* logEvent(message) on the panel.
logEvent(panel) ==
  LET appended == Append(panel.nodes, [kind |-> "p", n |-> panel.logged + 1])
  IN  [panel EXCEPT
         !.nodes = IF Len(Children(appended)) > LogLimit
                   THEN Tail(appended) ELSE appended,
         !.logged = @ + 1]

\* The page before DOMContentLoaded: no camera, no timer, no capture.
NoPage == [camera |-> "none"]

NoLoad == [pc |-> "none"]

\* angleTracking.js loaded and index.html parsed.
EngineLoaded ==
  /\ now = 0
  /\ currentGuidanceState = "center"
  /\ stateStartTime = 0
  /\ lastBrightnessValue = Null
  /\ lastDistanceEstimate = Null
  /\ focusScore = Zero
  /\ captureReady = FALSE
  /\ ui = [message |-> "Aligning camera...", progressWidth |-> 0,
           focusClass |-> "focus-indicator", pulse |-> FALSE,
           captureText |-> "Capture Image", disabled |-> FALSE]
  /\ guidance = NoGuidance
  /\ call = NoCall
  /\ goodSince = TRUE
  /\ writer = "none"
  /\ logPanel = InitialPanel

Init ==
  /\ EngineLoaded
  /\ probe = NoProbe
  /\ page = NoPage
  /\ load = NoLoad

Next == updateGuidanceUI

Spec == Init /\ [][Next]_vars

(***************************************************************************)
(* The engine applied to one image element.  An element has the fields     *)
(* analyzeImageQuality reads: videoWidth and videoHeight (0 for a video    *)
(* without data, undefined, modelled as 0, for an image), width and height;*)
(* `level` and `k` describe the pixels it holds.                           *)
(***************************************************************************)
DefaultSize == 300

\* The largest dimension of an element that holds pixels.
MaxDim == 4

\* a || b || 300 on numbers: 0 and undefined are falsy.
OrDefault_NoDefault(a, b) == IF a # 0 THEN a ELSE b

OrDefault(a, b) == IF a # 0 THEN a ELSE IF b # 0 THEN b ELSE DefaultSize

\* The size analyzeImageQuality gives its canvas.
CanvasOf(el) ==
  [width |-> OrDefault(el.videoWidth, el.width),
   height |-> OrDefault(el.videoHeight, el.height)]

\* A video with data, or an image with a natural size, has pixels to draw.
HasPixels(el) ==
  \/ el.videoWidth >= 1 /\ el.videoHeight >= 1
  \/ el.videoWidth = 0 /\ el.videoHeight = 0 /\ el.width >= 1 /\ el.height >= 1

\* drawImage and getImageData: the element's pixels at the size of the canvas;
\* an element without pixels leaves the canvas transparent black.
RasterOf(el) ==
  LET c == CanvasOf(el)
  IN  IF HasPixels(el)
      THEN PaintedFrame(c.width, c.height, el.level, 0, el.k)
      ELSE [width |-> c.width, height |-> c.height,
            data |-> [i \in 0 .. (4 * c.width * c.height - 1) |-> 0]]

IndexSizeError == [threw |-> "IndexSizeError"]

\* analyzeImageQuality on an element; getImageData throws on an empty canvas.
computeMetrics(el) ==
  LET c == CanvasOf(el)
  IN  IF c.width = 0 \/ c.height = 0 THEN IndexSizeError
      ELSE analyzeImageQuality(RasterOf(el))

Paints == {0, 128, 255} \X {0, 1, 2}

Elements ==
  { [videoWidth |-> w, videoHeight |-> h, width |-> 0, height |-> 0,
     level |-> p[1], k |-> p[2]] : w \in 1 .. MaxDim, h \in 1 .. MaxDim, p \in Paints }
  \cup
  { [videoWidth |-> 0, videoHeight |-> 0, width |-> w, height |-> h,
     level |-> p[1], k |-> p[2]] : w \in 1 .. MaxDim, h \in 1 .. MaxDim, p \in Paints }
  \cup
  { [videoWidth |-> d[1], videoHeight |-> d[2], width |-> d[3], height |-> d[4],
     level |-> 0, k |-> 0] :
       d \in { q \in {0, 2} \X {0, 2} \X {0, 2} \X {0, 2} :
                 (q[1] = 0 /\ q[3] = 0) \/ (q[2] = 0 /\ q[4] = 0) } }

\* How long after the engine was loaded the element is analysed.
ProbeDelays == {0, STATE_DURATION + PollInterval}

\* One call of window.getDetailedGuidance on the element.
probeGuidance ==
  /\ probe.stage = "element"
  /\ LET metrics == computeMetrics(probe.element)
     IN  IF metrics = IndexSizeError
         THEN /\ probe' = [probe EXCEPT !.stage = "threw"]
              /\ UNCHANGED <<now, engine, guidance, call, goodSince>>
         ELSE /\ \E late \in ProbeDelays :
                   getGuidanceWith(now + late, metrics, 0, 0, TRUE)
              /\ probe' = [probe EXCEPT !.stage = "returned"]
  /\ writer' = WriterAfter("probe")
  /\ UNCHANGED <<captureReady, ui, page, logPanel, load>>

InitMetrics ==
  /\ EngineLoaded
  /\ page = NoPage
  /\ load = NoLoad
  /\ \E el \in Elements :
       probe = [stage |-> "element", element |-> el, canvas |-> CanvasOf(el)]

NextMetrics == probeGuidance

SpecMetrics == InitMetrics /\ [][NextMetrics]_vars

(***************************************************************************)
(* The log panel on its own: any sequence of logEvent calls and of clicks  *)
(* on the accordion header.                                                *)
(***************************************************************************)
MaxLogCalls == 60

logEventCall ==
  /\ logPanel.logged < MaxLogCalls
  /\ logPanel' = logEvent(logPanel)
  /\ UNCHANGED <<now, engine, captureReady, ui, guidance, call, goodSince,
                 probe, page, writer, load>>

toggleLogs ==
  /\ logPanel' =
       IF logPanel.display = "none" \/ logPanel.display = ""
       THEN [logPanel EXCEPT !.display = "block", !.icon = "-"]
       ELSE [logPanel EXCEPT !.display = "none", !.icon = "+"]
  /\ UNCHANGED <<now, engine, captureReady, ui, guidance, call, goodSince,
                 probe, page, writer, load>>

InitLog ==
  /\ EngineLoaded
  /\ probe = NoProbe
  /\ page = NoPage
  /\ load = NoLoad

NextLog == logEventCall \/ toggleLogs

SpecLog == InitLog /\ [][NextLog]_vars

(***************************************************************************)
(* The risk assessment of captureImage on one pair of category scores.     *)
(***************************************************************************)
\* The scores of the model are the multiples of 1 / ScoreSteps in [0, 1].
ScoreSteps == 20

Scores == { Rat(k, ScoreSteps) : k \in 0 .. ScoreSteps }

\* The warning captureImage shows; "none" is the low-risk recommendation.
WarningOf(malignantScore, precancerScore) ==
  IF RGt(malignantScore, Rat(6, 10)) THEN "HIGH RISK"
  ELSE IF RGt(malignantScore, Rat(2, 10)) THEN "MODERATE RISK"
  ELSE IF RGt(precancerScore, Rat(3, 10)) THEN "ELEVATED RISK"
  ELSE "none"

RiskColor(malignantScore, precancerScore) ==
  IF RGt(malignantScore, Rat(4, 10)) THEN "red"
  ELSE IF RGt(malignantScore, Rat(15, 100)) \/ RGt(precancerScore, Rat(3, 10))
       THEN "orange"
  ELSE IF RGt(malignantScore, Rat(5, 100)) THEN "yellow"
  ELSE "green"

assessRisk ==
  /\ probe.stage = "scores"
  /\ probe' = [probe EXCEPT
                 !.stage = "assessed",
                 !.warning = WarningOf(probe.malignantScore, probe.precancerScore),
                 !.riskColor = RiskColor(probe.malignantScore, probe.precancerScore)]
  /\ UNCHANGED <<now, engine, captureReady, ui, guidance, call, goodSince,
                 page, logPanel, writer, load>>

InitRisk ==
  /\ EngineLoaded
  /\ page = NoPage
  /\ load = NoLoad
  /\ \E m \in Scores, p \in Scores :
       probe = [stage |-> "scores", malignantScore |-> m, precancerScore |-> p,
                warning |-> "none", riskColor |-> "green"]

NextRisk == assessRisk

SpecRisk == InitRisk /\ [][NextRisk]_vars

(***************************************************************************)
(* loadModel and loadModelWithFix.  `load` holds the await the load is     *)
(* suspended at (pc), the globals model and classNames, the text of        *)
(* #model-status and, as history, the loaders tried so far.  Each action   *)
(* is the continuation that runs when the awaited promise settles, with    *)
(* either outcome; a return of loadModelWithFix runs on into loadModel.    *)
(***************************************************************************)
UndefinedModel == [kind |-> "undefined", predict |-> FALSE, inputs |-> FALSE]

\* What tf.loadLayersModel resolves to.
LayersModel(kind) == [kind |-> kind, predict |-> TRUE, inputs |-> TRUE]

\* The object loadModelWithFix builds last: predict and dispose, no inputs,
\* over the class names it fetched or its default ones.
DemoModel(names) ==
  [kind |-> "demo", predict |-> TRUE, inputs |-> FALSE, names |-> names]

RECURSIVE logEvents(_, _)
\* n calls of logEvent in a row.
logEvents(panel, n) == IF n = 0 THEN panel ELSE logEvents(logEvent(panel), n - 1)

\* loadModel's report on the model: model.inputs[0].shape is read only when
\* model.inputs is truthy.
InputShapeRead_Unguarded(m) == IF m.inputs THEN "shape" ELSE "TypeError"

InputShapeRead(m) == IF m.inputs THEN "shape" ELSE "wrapped"

loadUnchanged ==
  UNCHANGED <<now, engine, captureReady, ui, guidance, call, goodSince,
              probe, page, writer>>

\* loadModelWithFix returns m after `logs` more log calls: loadModel stores
\* it, reports on it and fetches the class names; a throw ends in its catch.
loadModelResumes(m, logs) ==
  IF InputShapeRead(m) = "TypeError"
  THEN /\ load' = [load EXCEPT !.pc = "done", !.model = m,
                               !.modelStatus = "Error"]
       /\ logPanel' = logEvents(logPanel, logs + 1)
  ELSE /\ load' = [load EXCEPT !.pc = "classNames fetch", !.model = m]
       /\ logPanel' = logEvents(logPanel, logs + 1)

standardLoadSettles ==
  /\ load.pc = "standard load"
  /\ \/ loadModelResumes(LayersModel("standard"), 0)
     \/ /\ load' = [load EXCEPT !.pc = "model.json fetch",
                                !.attempts = Append(@, "patched")]
        /\ logPanel' = logEvents(logPanel, 2)
  /\ loadUnchanged

\* The catch of the fix, then the start of the relaxed load.
FixFailed(logs) ==
  /\ load' = [load EXCEPT !.pc = "relaxed load",
                          !.attempts = Append(@, "relaxed")]
  /\ logPanel' = logEvents(logPanel, logs + 1)

modelJsonFetchSettles ==
  /\ load.pc = "model.json fetch"
  /\ \/ load' = [load EXCEPT !.pc = "model.json parse"] /\ UNCHANGED logPanel
     \/ FixFailed(1)
  /\ loadUnchanged

modelJsonParsed ==
  /\ load.pc = "model.json parse"
  /\ \/ \* a topology with a config: patched and loaded from a blob URL
        load' = [load EXCEPT !.pc = "patched load"] /\ UNCHANGED logPanel
     \/ \* no topology or no config: the try block ends without a return
        FixFailed(0)
     \/ \* response.json() rejects, or the patching throws
        FixFailed(1)
  /\ loadUnchanged

patchedLoadSettles ==
  /\ load.pc = "patched load"
  /\ \/ loadModelResumes(LayersModel("patched"), 1)
     \/ FixFailed(1)
  /\ loadUnchanged

relaxedLoadSettles ==
  /\ load.pc = "relaxed load"
  /\ \/ loadModelResumes(LayersModel("relaxed"), 1)
     \/ /\ load' = [load EXCEPT !.pc = "demo names fetch",
                                !.attempts = Append(@, "demo")]
        /\ logPanel' = logEvents(logPanel, 2)
  /\ loadUnchanged

demoNamesFetchSettles ==
  /\ load.pc = "demo names fetch"
  /\ \/ load' = [load EXCEPT !.pc = "demo names parse"] /\ UNCHANGED logPanel
     \/ loadModelResumes(DemoModel("default"), 0)
  /\ loadUnchanged

demoNamesParsed ==
  /\ load.pc = "demo names parse"
  /\ \E names \in {"fetched", "default"} : loadModelResumes(DemoModel(names), 0)
  /\ loadUnchanged

classNamesFetchSettles ==
  /\ load.pc = "classNames fetch"
  /\ \/ load' = [load EXCEPT !.pc = "classNames parse"] /\ UNCHANGED logPanel
     \/ /\ load' = [load EXCEPT !.pc = "done", !.modelStatus = "Ready"]
        /\ logPanel' = logEvent(logPanel)
  /\ loadUnchanged

classNamesParsed ==
  /\ load.pc = "classNames parse"
  /\ \E parsed \in BOOLEAN :
       load' = [load EXCEPT !.pc = "done", !.modelStatus = "Ready",
                            !.classNames = IF parsed THEN "fetched" ELSE @]
  /\ logPanel' = logEvent(logPanel)
  /\ loadUnchanged

InitLoad ==
  /\ EngineLoaded
  /\ probe = NoProbe
  /\ page = NoPage
  /\ load = [pc |-> "standard load", model |-> UndefinedModel,
             modelStatus |-> "Loading...", classNames |-> "empty",
             attempts |-> <<"standard">>]

NextLoad ==
  \/ standardLoadSettles
  \/ modelJsonFetchSettles
  \/ modelJsonParsed
  \/ patchedLoadSettles
  \/ relaxedLoadSettles
  \/ demoNamesFetchSettles
  \/ demoNamesParsed
  \/ classNamesFetchSettles
  \/ classNamesParsed
  \/ toggleLogs

SpecLoad == InitLoad /\ [][NextLoad]_vars

(***************************************************************************)
(* The page of script.js: the camera, the polling timers, the capture      *)
(* button and the captures in flight.  Each action is one task of the      *)
(* event loop: an event handler, or the continuation that runs when an     *)
(* awaited promise settles, together with the microtasks it starts.        *)
(*   page.camera            "requested", "attached" (video.srcObject set)  *)
(*                          or "denied"                                    *)
(*   page.handler           video.onloadedmetadata is installed            *)
(*   page.metadataPending   a stream was attached, loadedmetadata is due   *)
(*   page.hasSize           video.videoWidth and videoHeight are not 0     *)
(*   page.enoughData        video.readyState is 4                          *)
(*   page.switchPending     getUserMedia requests of switchCamera pending  *)
(*   page.timers            the ids of the active intervals                *)
(*   page.guidanceInterval  the global; 0 is undefined                     *)
(*   page.timersCreated     the number of setInterval calls                *)
(*   page.loading           captured images whose onload is due            *)
(*   page.broken            captured images that cannot load (empty canvas)*)
(*   page.analyzing         predictions awaited by analyzeImage            *)
(*   page.results           cards inserted in #results                     *)
(*   page.switches, page.captures   clicks so far                          *)
(***************************************************************************)
MaxSwitches == 2
MaxCaptures == 2

\* In this specification a task runs at once or one dwell and a period after
\* the last clock read, on a sharp frame or on a featureless one.
AppDelays == {0, STATE_DURATION + PollInterval}

AppFrames == { PaintedFrame(5, 4, 127, 1, 2), PaintedFrame(5, 4, 127, 1, 0) }

appEngineUnchanged ==
  UNCHANGED <<now, engine, captureReady, guidance, call, goodSince, writer>>

\* startCamera after getUserMedia resolved.
cameraGranted ==
  /\ page.camera = "requested"
  /\ page' = [page EXCEPT !.camera = "attached", !.handler = TRUE,
                          !.metadataPending = TRUE, !.hasSize = FALSE,
                          !.enoughData = FALSE]
  /\ appEngineUnchanged
  /\ UNCHANGED <<ui, logPanel, probe, load>>

\* startCamera after getUserMedia rejected.
cameraDenied ==
  /\ page.camera = "requested"
  /\ page' = [page EXCEPT !.camera = "denied", !.cameraStatus = "Error"]
  /\ logPanel' = logEvent(logPanel)
  /\ appEngineUnchanged
  /\ UNCHANGED <<ui, probe, load>>

\* The intervals left active by startGuidanceSystem, which makes interval id.
TimersAfterStart_NoClear(timers, guidanceInterval, id) == timers \cup {id}

TimersAfterStart(timers, guidanceInterval, id) ==
  (IF guidanceInterval # 0 THEN timers \ {guidanceInterval} ELSE timers)
    \cup {id}

\* The loadedmetadata event of the video; its handler, when installed, ends
\* with startGuidanceSystem.
loadedMetadata ==
  /\ page.metadataPending
  /\ IF page.handler
     THEN LET id == page.timersCreated + 1
          IN  /\ page' = [page EXCEPT
                            !.metadataPending = FALSE,
                            !.hasSize = TRUE,
                            !.cameraStatus = "Active",
                            !.timers = TimersAfterStart(page.timers,
                                         page.guidanceInterval, id),
                            !.guidanceInterval = id,
                            !.timersCreated = id]
              /\ logPanel' = logEvents(logPanel, 2)
     ELSE /\ page' = [page EXCEPT !.metadataPending = FALSE, !.hasSize = TRUE]
          /\ UNCHANGED logPanel
  /\ appEngineUnchanged
  /\ UNCHANGED <<ui, probe, load>>

\* The video reaches readyState 4.
videoHasData ==
  /\ page.hasSize
  /\ ~page.enoughData
  /\ page' = [page EXCEPT !.enoughData = TRUE]
  /\ appEngineUnchanged
  /\ UNCHANGED <<ui, logPanel, probe, load>>

\* A click on #switch-camera: the tracks are stopped, a stream is requested.
switchCamera ==
  /\ page.switches < MaxSwitches
  /\ page' = [page EXCEPT !.switches = @ + 1, !.switchPending = @ + 1]
  /\ appEngineUnchanged
  /\ UNCHANGED <<ui, logPanel, probe, load>>

\* The request of switchCamera settles: the new stream is attached, or the
\* error is logged.
switchSettles ==
  /\ page.switchPending > 0
  /\ \/ page' = [page EXCEPT !.switchPending = @ - 1,
                             !.camera = IF @ = "requested" THEN @ ELSE "attached",
                             !.metadataPending = TRUE, !.hasSize = FALSE,
                             !.enoughData = FALSE]
     \/ page' = [page EXCEPT !.switchPending = @ - 1]
  /\ logPanel' = logEvent(logPanel)
  /\ appEngineUnchanged
  /\ UNCHANGED <<ui, probe, load>>

\* A polling tick: one of the active intervals fires updateGuidanceUI, which
\* does nothing unless the video has enough data.
tick ==
  /\ page.timers # {}
  /\ page.enoughData
  /\ updateGuidanceUIOn(AppDelays, AppFrames, {0})
  /\ UNCHANGED <<probe, page, logPanel, load>>

\* A disabled button receives no click.
CanClick_Always(button) == TRUE

CanClick(button) == ~button.disabled

\* A click on #capture: captureImage up to img.onload.  The canvas takes the
\* size of the video; an empty canvas gives an image that never loads.
captureImage ==
  /\ CanClick(ui)
  /\ page.captures < MaxCaptures
  /\ ui' = [ui EXCEPT !.captureText = "Processing...", !.disabled = TRUE,
                      !.pulse = FALSE]
  /\ page' = IF page.hasSize
             THEN [page EXCEPT !.captures = @ + 1, !.loading = @ + 1]
             ELSE [page EXCEPT !.captures = @ + 1, !.broken = @ + 1]
  /\ appEngineUnchanged
  /\ UNCHANGED <<logPanel, probe, load>>

\* img.onload: the final guidance reading, then analyzeImage up to its
\* await; when the preprocessing (before the tensor is logged) or
\* model.predict (after it) throws, analyzeImage returns at once and the
\* card is inserted in the same task.
imageLoaded ==
  /\ page.loading > 0
  /\ \E late \in AppDelays, img \in AppFrames :
       getGuidance(now + late, img, 0, 0, TRUE)
  /\ writer' = WriterAfter("capture")
  /\ \/ /\ page' = [page EXCEPT !.loading = @ - 1, !.analyzing = @ + 1]
        /\ ui' = [ui EXCEPT !.captureText = "Analyzing...", !.disabled = TRUE]
        /\ logPanel' = logEvents(logPanel, 3)
     \/ /\ page' = [page EXCEPT !.loading = @ - 1, !.results = @ + 1]
        /\ ui' = [ui EXCEPT !.captureText = "Capture Image", !.disabled = FALSE]
        /\ \E logs \in {3, 4} : logPanel' = logEvents(logPanel, logs)
  /\ UNCHANGED <<captureReady, probe, load>>

\* The promise of model.predict(tensor).data() settles: analyzeImage logs,
\* resets the button and returns; the onload callback inserts the card and
\* resets the button again.
predictionSettles ==
  /\ page.analyzing > 0
  /\ page' = [page EXCEPT !.analyzing = @ - 1, !.results = @ + 1]
  /\ ui' = [ui EXCEPT !.captureText = "Capture Image", !.disabled = FALSE]
  /\ logPanel' = logEvent(logPanel)
  /\ appEngineUnchanged
  /\ UNCHANGED <<probe, load>>

InitApp ==
  /\ EngineLoaded
  /\ probe = NoProbe
  /\ load = NoLoad
  /\ page = [camera |-> "requested", cameraStatus |-> "Initializing...",
             handler |-> FALSE, metadataPending |-> FALSE, hasSize |-> FALSE,
             enoughData |-> FALSE, switchPending |-> 0, switches |-> 0,
             timers |-> {}, guidanceInterval |-> 0, timersCreated |-> 0,
             loading |-> 0, broken |-> 0, analyzing |-> 0, results |-> 0,
             captures |-> 0]

NextApp ==
  \/ cameraGranted
  \/ cameraDenied
  \/ loadedMetadata
  \/ videoHasData
  \/ switchCamera
  \/ switchSettles
  \/ tick
  \/ captureImage
  \/ imageLoaded
  \/ predictionSettles
  \/ toggleLogs

SpecApp == InitApp /\ [][NextApp]_vars

(***************************************************************************)
(* Properties.                                                             *)
(***************************************************************************)
Returned == guidance # NoGuidance

\* The last call found the dwell expired and re-evaluated the state.
Reevaluated == call.made /\ call.timeInState > STATE_DURATION

\* The states rules 2-7 allow for a metrics record.
RuleStates(m) ==
  IF RLt(m.brightness, Rat(4, 10)) THEN {"more_light"}
  ELSE IF RGt(m.brightness, Rat(85, 100)) THEN {"less_reflection"}
  ELSE IF RLt(m.distanceEstimate, Rat(3, 10)) THEN {"further"}
  ELSE IF RGt(m.distanceEstimate, Rat(7, 10)) THEN {"closer"}
  ELSE IF ~m.hasFocusedSubject THEN {"left_side", "right_side"}
  ELSE {"center"}

\* C1: in every returned record, readyForCapture is true exactly when the
\* current state is hold_steady and the focusScore of that call exceeds 0.8.
C1_ReadyIffHoldSteadyAndFocused ==
  Returned =>
    /\ guidance.state = currentGuidanceState
    /\ guidance.readyForCapture
         <=> (currentGuidanceState = "hold_steady" /\ RGt(focusScore, Rat(8, 10)))

C1_Witness ==
  /\ Returned
  /\ guidance.readyForCapture
  /\ currentGuidanceState = "hold_steady"

\* C2: a guide call made with now - stateStartTime <= 3000 ms returns the
\* state it found and leaves the state and stateStartTime unchanged, whatever
\* the frame.
C2_NoChangeWithinDwell ==
  (call.made /\ call.timeInState <= STATE_DURATION) =>
    /\ currentGuidanceState = call.stateBefore
    /\ stateStartTime = call.startBefore
    /\ guidance.state = call.stateBefore

\* A dark frame at exactly 3000 ms in state center: rule 2 would move it.
C2_Witness ==
  /\ call.made
  /\ call.timeInState = STATE_DURATION
  /\ RLt(call.metrics.brightness, Rat(4, 10))
  /\ currentGuidanceState = "center"

\* C3: a guide call after the dwell has expired with focusScore > 0.7 makes
\* the state hold_steady, whatever brightness and distanceEstimate are.
C3_FocusRuleFirst ==
  (Reevaluated /\ RGt(focusScore, Rat(7, 10))) =>
    currentGuidanceState = "hold_steady"

C3_Witness ==
  /\ Reevaluated
  /\ RGt(focusScore, Rat(7, 10))
  /\ RLt(call.metrics.brightness, Rat(4, 10))
  /\ currentGuidanceState = "hold_steady"

\* C4: a guide call after the dwell has expired with focusScore <= 0.7 makes
\* the state the first of rules 2-7 that matches; brightness 0.2 with
\* distanceEstimate 0.9 gives more_light.
C4_FirstMatchingRule ==
  Reevaluated =>
    /\ RLe(focusScore, Rat(7, 10)) => currentGuidanceState \in RuleStates(call.metrics)
    /\ (call.metrics.brightness = Rat(2, 10)
        /\ call.metrics.distanceEstimate = Rat(9, 10))
         => currentGuidanceState = "more_light"

C4_Witness ==
  /\ Reevaluated
  /\ call.metrics.brightness = Rat(2, 10)
  /\ call.metrics.distanceEstimate = Rat(9, 10)
  /\ currentGuidanceState = "more_light"

\* C5: a guide call after the dwell has expired on a frame with brightness
\* 0.5, distanceEstimate 0.5 and a focused subject makes the state center.
C5_CenterScenario ==
  (/\ Reevaluated
   /\ call.metrics.brightness = Rat(5, 10)
   /\ call.metrics.distanceEstimate = Rat(5, 10)
   /\ call.metrics.hasFocusedSubject)
    => currentGuidanceState = "center"

\* C6: when every frame of a dwell period had focusScore > 0.7, the first
\* call after the dwell expires makes the state hold_steady; and a call that
\* leaves the state hold_steady with focusScore 0.85 returns readyForCapture.
C6_SustainedFocusHolds ==
  /\ (Reevaluated /\ call.sustained) => currentGuidanceState = "hold_steady"
  /\ (Returned /\ guidance.state = "hold_steady" /\ focusScore = Rat(85, 100))
       => guidance.readyForCapture

\* A later tick in hold_steady, entered by a transition, with focusScore 0.85.
C6_Witness ==
  /\ call.made
  /\ call.timeInState <= STATE_DURATION
  /\ call.stateBefore = "hold_steady"
  /\ call.startBefore > 0
  /\ focusScore = Rat(85, 100)
  /\ guidance.readyForCapture

\* C7: from hold_steady, a guide call after the dwell has expired with
\* focusScore <= 0.7 moves to the state rules 2-7 choose; the state stays
\* hold_steady across the expiry only if focusScore > 0.7 on that call.
C7_HoldSteadyNotSticky ==
  (Reevaluated /\ call.stateBefore = "hold_steady") =>
    /\ RLe(focusScore, Rat(7, 10)) =>
         /\ currentGuidanceState # "hold_steady"
         /\ currentGuidanceState \in RuleStates(call.metrics)
    /\ currentGuidanceState = "hold_steady" => RGt(focusScore, Rat(7, 10))

C7_Witness ==
  /\ Reevaluated
  /\ call.stateBefore = "hold_steady"
  /\ currentGuidanceState = "closer"

\* A tick can find the dwell expired without running past the end of the clock.
CanExpire ==
  /\ now + 2 * PollInterval - stateStartTime > STATE_DURATION
  /\ now + 2 * PollInterval + 2 * MaxReadDelay <= MaxNow

\* C8: the current state is always one of the eight states, it is center
\* until the first transition, and no state is terminal: whenever the dwell
\* can expire, some guide call moves the machine to another state.
C8_EightStatesNoneTerminal ==
  /\ currentGuidanceState \in STATES
  /\ (stateStartTime = 0 => currentGuidanceState = "center")
  /\ CanExpire =>
       ENABLED (updateGuidanceUI /\ currentGuidanceState' # currentGuidanceState)

\* A tick within a dwell of hold_steady, with the end of the dwell in reach.
C8_Witness ==
  /\ currentGuidanceState = "hold_steady"
  /\ call.made
  /\ call.stateBefore = "hold_steady"
  /\ CanExpire

\* C9: progressPercent of a state other than hold_steady is
\* min(100, 100 * (now - stateStartTime) / 3000) rounded, with the
\* stateStartTime in force after the call; for hold_steady it is
\* min(100, 100 * focusScore) rounded.
C9_ProgressAfterReset ==
  Returned =>
    guidance.progressPercent =
      IF guidance.state = "hold_steady"
      THEN MathRound(RMin(Rat(100, 1), RMul(focusScore, Rat(100, 1))))
      ELSE MathRound(RMin(Rat(100, 1),
                          Rat(100 * (now - stateStartTime), STATE_DURATION)))

\* C10: progressPercent of every returned record is an integer in 0..100.
C10_ProgressInRange ==
  Returned => guidance.progressPercent \in 0 .. 100

\* A late call: 100 * timeInState / 3000 is above 100 and is capped.
C10_Witness ==
  /\ Returned
  /\ call.timeInState > STATE_DURATION
  /\ guidance.state # "hold_steady"
  /\ guidance.progressPercent = 100


\* C11: for every frame computeMetrics returns brightness and sharpness in
\* [0, 1] and a focusScore in [0, 1.5].
C11_MetricsInRange ==
  call.made =>
    /\ RLe(Zero, call.metrics.brightness) /\ RLe(call.metrics.brightness, One)
    /\ RLe(Zero, call.metrics.sharpness) /\ RLe(call.metrics.sharpness, One)
    /\ RLe(Zero, focusScore) /\ RLe(focusScore, Rat(15, 10))

\* C13: getGuidance returns a record for every element, also one with a
\* dimension missing or zero: the canvas is at least 1 x 1, so getImageData
\* does not throw and no divisor of the normalisations is 0.
C13_NoErrorOnDegenerateElement ==
  /\ probe.stage # "threw"
  /\ probe.stage \in {"element", "returned"} =>
       /\ probe.canvas.width >= 1
       /\ probe.canvas.height >= 1
       /\ probe.canvas.width =
            (IF probe.element.videoWidth # 0 THEN probe.element.videoWidth
             ELSE IF probe.element.width # 0 THEN probe.element.width ELSE 300)
       /\ probe.canvas.height =
            (IF probe.element.videoHeight # 0 THEN probe.element.videoHeight
             ELSE IF probe.element.height # 0 THEN probe.element.height ELSE 300)
  /\ probe.stage = "returned" =>
       /\ Returned
       /\ call.made
       /\ call.metrics.brightness.d > 0
       /\ call.metrics.sharpness.d > 0
       /\ call.metrics.distanceEstimate.d > 0

\* An element with no dimension at all, analysed on a 300 x 300 canvas.
C13_Witness ==
  /\ probe.stage = "returned"
  /\ probe.element.videoWidth = 0
  /\ probe.element.width = 0
  /\ probe.element.videoHeight = 0
  /\ probe.element.height = 0
  /\ probe.canvas = [width |-> 300, height |-> 300]
  /\ Returned

\* C14: with metrics computed by analyzeImageQuality, a transition enters
\* only hold_steady, more_light, less_reflection or closer; further,
\* left_side and right_side are never the state, and center is the state
\* only while no transition has happened.
C14_OnlyFourTargets ==
  /\ Reevaluated =>
       currentGuidanceState \in
         {"hold_steady", "more_light", "less_reflection", "closer"}
  /\ currentGuidanceState \notin {"further", "left_side", "right_side"}
  /\ currentGuidanceState = "center" => stateStartTime = 0

\* A re-evaluation on a frame whose distanceEstimate is below 0.3, the case
\* of the further rule, in good light.
C14_Witness ==
  /\ Reevaluated
  /\ RLt(call.metrics.distanceEstimate, Rat(3, 10))
  /\ RLe(Rat(4, 10), call.metrics.brightness)
  /\ RLe(call.metrics.brightness, Rat(85, 100))
  /\ currentGuidanceState = "hold_steady"

\* C20: the log panel holds at most 20 message elements, and the nodes a
\* call removes are messages, oldest first: the messages left are the most
\* recent ones.
C20_PanelBounded ==
  LET messages == Children(logPanel.nodes)
  IN  /\ Len(messages) <= 20
      /\ Len(messages) = Len(logPanel.nodes)
           \/ logPanel.nodes = InitialPanel.nodes
                 \o [i \in 1 .. logPanel.logged |-> [kind |-> "p", n |-> i]]

\* C19: the colour of the risk indicator agrees with the warning shown: red
\* exactly with HIGH RISK, orange exactly with MODERATE RISK or ELEVATED
\* RISK, yellow or green only with no warning.
C19_ColourAgreesWithTier ==
  probe.stage = "assessed" =>
    /\ probe.riskColor = "red" <=> probe.warning = "HIGH RISK"
    /\ probe.riskColor = "orange" <=>
         probe.warning \in {"MODERATE RISK", "ELEVATED RISK"}
    /\ probe.riskColor \in {"yellow", "green"} => probe.warning = "none"

\* C18: the load never ends in 'Error'; the loaders are tried in the order
\* standard, patched, relaxed, demonstration, each after the one before it;
\* once loadModelWithFix has returned, model has a predict operation, and
\* when loadModel has ended the status is 'Ready'; until then some
\* continuation is waiting for its promise.
C18_LoadEndsReady ==
  /\ load.pc # "none" =>
       /\ load.modelStatus # "Error"
       /\ load.attempts \in
            { SubSeq(<<"standard", "patched", "relaxed", "demo">>, 1, k) :
                k \in 1 .. 4 }
       /\ load.pc \in {"classNames fetch", "classNames parse", "done"} =>
            load.model.predict
       /\ load.pc = "done" => load.modelStatus = "Ready"
       /\ load.model.kind = "demo" => Len(load.attempts) = 4
  /\ load.pc \notin {"none", "done"} => ENABLED NextLoad

\* Every loader failed and the load has ended with the demonstration model.
C18_Witness ==
  /\ load.pc = "done"
  /\ load.model = DemoModel("default")
  /\ load.attempts = <<"standard", "patched", "relaxed", "demo">>
  /\ load.modelStatus = "Ready"

\* The captures started and not yet finished.
InFlight == page.loading + page.broken + page.analyzing

\* C12: currentGuidanceState, stateStartTime and focusScore are changed by
\* polling ticks only, never by another event of the application.
C12_OnlyTicksWriteEngine == writer \in {"none", "tick"}

\* C15: at most one polling interval is active, and it is the one
\* guidanceInterval names.
C15_AtMostOneTimer ==
  page.camera # "none" =>
    /\ Cardinality(page.timers) <= 1
    /\ page.timers # {} => page.timers = {page.guidanceInterval}

\* The guidance system has been started again after a camera switch.
C15_Witness ==
  /\ page.camera # "none"
  /\ page.timersCreated >= 2
  /\ page.switches >= 1
  /\ Cardinality(page.timers) = 1

\* C16: at most one capture is in flight, and while one is the capture
\* button is disabled, whatever ticks have fired.
C16_OneCaptureAtATime ==
  page.camera # "none" =>
    /\ InFlight <= 1
    /\ InFlight >= 1 => ui.disabled /\ ~CanClick(ui)

\* A tick has rewritten the button during an analysis, and the button is
\* still disabled.
C16_Witness ==
  /\ page.camera # "none"
  /\ page.analyzing = 1
  /\ ui.captureText \in {"Capture Image", "Capture Now"}
  /\ ui.disabled

\* C17: while a capture is being processed the button shows a loading label
\* and does not pulse.
C17_LoadingLabelKept ==
  (page.camera # "none" /\ page.loading + page.analyzing >= 1) =>
    /\ ui.captureText \in {"Processing...", "Analyzing..."}
    /\ ~ui.pulse

=============================================================================
